---- MODULE Spec2Model ----
(***************************************************************************)
(* reactor_sim.py: the staged transient driver (simulate_transient), the   *)
(* equilibrium algebra and reactivity calibration of main(), and the part  *)
(* of main() that decides whether a run is started.                        *)
(*                                                                         *)
(* Numbers.  Python floats are modelled as exact rationals: binary64       *)
(* rounding is not modelled.  Times of the driver are fractions <<n, d>>   *)
(* of seconds in lowest terms; the physical quantities of main() are       *)
(* signed rationals over arbitrary-precision naturals (section 4), so the  *)
(* constants of ReactorConstants are kept digit for digit.                 *)
(*                                                                         *)
(* odeint is library code.  Its result is represented by what the driver   *)
(* can observe of it: row 0 is the start state it was given, row j is      *)
(* "the start state advanced under the flux for t_span[j] seconds".        *)
(***************************************************************************)
EXTENDS Integers, Sequences, FiniteSets, TLC

VARIABLES
    power_history,  \* simulate_transient's argument: Seq of [duration, flux]
    initial_state,  \* simulate_transient's argument
    run,            \* the frame of simulate_transient(power_history, initial_state)
    removed,        \* 0, or the position of a duration <= 0 segment
    run2,           \* the frame of simulate_transient(power_history less that segment, initial_state)
    ui,             \* main(): the sidebar widgets' values
    app,            \* main(): the button handler's position and results
    phys            \* main(): equilibrium reference and reactivity of one sample

vars == <<power_history, initial_state, run, removed, run2, ui, app, phys>>

(***************************************************************************)
(* Bounds of the model.                                                    *)
(***************************************************************************)
MaxSegs == 3     \* longest power history
MaxDur == 2      \* longest duration, in 1/DurDen hours
DurDen == 40     \* a duration d stands for d / DurDen hours

(***************************************************************************)
(* 1. Fractions over TLC integers (the driver's time axis)                 *)
(***************************************************************************)
RECURSIVE Gcd(_, _)
Gcd(a, b) == IF b = 0 THEN a ELSE Gcd(b, a % b)

Abs(x) == IF x < 0 THEN -x ELSE x

\* n / d in lowest terms, d > 0
Frac(n, d) ==
    LET g == Gcd(Abs(n), Abs(d))
        s == IF d < 0 THEN -1 ELSE 1
    IN  <<s * (n \div g), s * (d \div g)>>

FAdd(x, y) == Frac(x[1] * y[2] + y[1] * x[2], x[2] * y[2])
FLess(x, y) == x[1] * y[2] < y[1] * x[2]
FZero == <<0, 1>>

(***************************************************************************)
(* 2. simulate_transient                                                   *)
(***************************************************************************)
Durations == -1 .. MaxDur
Fluxes == {0, 1}    \* zero power and full power, in flux units
Segments == [duration : Durations, flux : Fluxes]

RECURSIVE SeqsUpTo(_, _)
SeqsUpTo(S, n) ==
    IF n = 0 THEN {<<>>}
    ELSE LET shorter == SeqsUpTo(S, n - 1)
         IN  shorter \cup {Append(h, s) : h \in {x \in shorter : Len(x) = n - 1}, s \in S}

\* A state vector [I, X, P, S]: whether all four components are finite, and
\* the stages it has been integrated through since the initial state.
InitialStates == {[finite |-> b, path |-> <<>>] : b \in BOOLEAN}

\* line 70: steps = int(duration * 20) + 10, for a duration > 0
StepsBad(duration) == (duration * 20) \div DurDen + 9
Steps(duration) == (duration * 20) \div DurDen + 10

\* line 71: np.linspace(0, stop, num): num evenly spaced points, the first 0
\* and the last stop
linspace(stop, num) == [j \in 1 .. num |-> Frac((j - 1) * stop[1], stop[2] * (num - 1))]

\* duration * 3600, in seconds
Seconds(duration) == Frac(duration * 3600, DurDen)

\* line 74: odeint(poison_derivatives, y0, t_span, args=(flux, const)).
\* Row 0 is y0 itself; a later row is y0 advanced for t_span[j] at the flux,
\* non-finite when y0 is (the fluxes of the model are finite).
odeint(y0, t_span, flux) ==
    [j \in 1 .. Len(t_span) |->
        IF j = 1 THEN y0
        ELSE [finite |-> y0.finite, path |-> Append(y0.path, <<flux, t_span[j]>>)]]

\* line 76: t_span + current_time
Offset(t_span, current_time) == [j \in 1 .. Len(t_span) |-> FAdd(t_span[j], current_time)]

\* line 67: if duration <= 0: continue
SkippedBad(duration) == duration < 0
Skipped(duration) == duration <= 0

\* lines 78-84: the first array appended whole, a later one without its row 0
KeptBad(results, arr) == arr
Kept(results, arr) == IF Len(results) = 0 THEN arr ELSE Tail(arr)

\* line 87: current_time += duration * 3600
AdvanceBad(current_time, duration) == Seconds(duration)
Advance(current_time, duration) == FAdd(current_time, Seconds(duration))

\* line 86: current_state = sol[-1]
CarryBad(current_state, sol) == current_state
Carry(current_state, sol) == sol[Len(sol)]

\* lines 59-62: the frame at the top of the loop
Entry(y0) ==
    [pc |-> "loop", i |-> 1,
     results |-> <<>>, time_points |-> <<>>,
     current_state |-> y0, current_time |-> FZero,
     calls |-> <<>>,
     t_arr |-> <<>>, y_arr |-> <<>>]

\* A frame that is not running (simulate_transient has not been called)
Idle == [Entry([finite |-> TRUE, path |-> <<>>]) EXCEPT !.pc = "idle"]

\* lines 66-87: one iteration of the for loop, over segment seg.
\* calls logs each odeint invocation (its arguments and its result).
LoopBody(f, seg) ==
    IF Skipped(seg.duration) THEN f
    ELSE LET steps == Steps(seg.duration)
             t_span == linspace(Seconds(seg.duration), steps)
             sol == odeint(f.current_state, t_span, seg.flux)
             abs_time == Offset(t_span, f.current_time)
         IN  [f EXCEPT
                !.results = Append(@, Kept(f.results, sol)),
                !.time_points = Append(@, Kept(f.results, abs_time)),
                !.current_state = Carry(f.current_state, sol),
                !.current_time = Advance(f.current_time, seg.duration),
                !.calls = Append(@, [y0 |-> f.current_state, t_span |-> t_span,
                                     flux |-> seg.flux, duration |-> seg.duration,
                                     sol |-> sol, at |-> f.current_time])]

RECURSIVE Concat(_)
Concat(arrays) == IF arrays = <<>> THEN <<>> ELSE Head(arrays) \o Concat(Tail(arrays))

\* line 89: np.concatenate raises ValueError on an empty list of arrays
Return(f) ==
    IF Len(f.time_points) = 0 \/ Len(f.results) = 0
    THEN [f EXCEPT !.pc = "raised"]
    ELSE [f EXCEPT !.pc = "returned",
                   !.t_arr = Concat(f.time_points),
                   !.y_arr = Concat(f.results)]

\* The for statement: the next segment, or the return after the last one
Step(f, history) ==
    IF f.i <= Len(history)
    THEN [LoopBody(f, history[f.i]) EXCEPT !.i = f.i + 1]
    ELSE Return(f)

RemoveAt(s, p) == [k \in 1 .. Len(s) - 1 |-> IF k < p THEN s[k] ELSE s[k + 1]]

\* The history the second run is given
Reduced == RemoveAt(power_history, removed)

NoApp == [pc |-> "off"]

Init ==
    /\ power_history \in SeqsUpTo(Segments, MaxSegs)
    /\ initial_state \in InitialStates
    /\ removed \in {0} \cup {p \in 1 .. Len(power_history) : power_history[p].duration <= 0}
    /\ run = Entry(initial_state)
    /\ run2 = Entry(initial_state)
    /\ ui = NoApp
    /\ app = NoApp
    /\ phys = NoApp

\* simulate_transient(power_history, initial_state) runs one step
Iterate ==
    /\ run.pc = "loop"
    /\ run' = Step(run, power_history)
    /\ UNCHANGED <<power_history, initial_state, removed, run2, ui, app, phys>>

\* simulate_transient(Reduced, initial_state) runs one step, once the first run has ended
IterateReduced ==
    /\ removed # 0
    /\ run.pc \in {"returned", "raised"}
    /\ run2.pc = "loop"
    /\ run2' = Step(run2, Reduced)
    /\ UNCHANGED <<power_history, initial_state, removed, run, ui, app, phys>>

Next == Iterate \/ IterateReduced

Spec == Init /\ [][Next]_vars

(***************************************************************************)
(* 3. Claims about simulate_transient                                      *)
(***************************************************************************)
Ended(f) == f.pc \in {"returned", "raised"}

Last(s) == s[Len(s)]

\* The durations > 0 among the first n segments of a history, in order
RECURSIVE Processed(_, _)
Processed(history, n) ==
    IF n = 0 THEN <<>>
    ELSE IF history[n].duration > 0
         THEN Append(Processed(history, n - 1), history[n].duration)
         ELSE Processed(history, n - 1)

RECURSIVE SumSeq(_)
SumSeq(s) == IF s = <<>> THEN 0 ELSE Head(s) + SumSeq(Tail(s))

AllDurations == Processed(power_history, Len(power_history))

\* C1: once both runs have ended, the run over the history with a
\* duration <= 0 segment and the run over the history without it ended the
\* same way, with the same time axis, the same state matrix, the same
\* integrator calls, the same current_state and the same current_time.
SegmentSkipping ==
    (removed # 0 /\ Ended(run) /\ Ended(run2)) =>
        /\ run.pc = run2.pc
        /\ run.t_arr = run2.t_arr
        /\ run.y_arr = run2.y_arr
        /\ run.calls = run2.calls
        /\ run.current_state = run2.current_state
        /\ run.current_time = run2.current_time

\* C1's case: a skipped segment between two processed ones has been removed
SegmentSkippingWitness ==
    /\ removed = 2
    /\ Len(power_history) = 3
    /\ power_history[2].duration = 0
    /\ run.pc = "returned" /\ run2.pc = "returned"
    /\ Len(run.calls) = 2

\* C2: the returned time axis is strictly increasing.
MonotonicTime ==
    run.pc = "returned" =>
        \A k \in 1 .. Len(run.t_arr) - 1 : FLess(run.t_arr[k], run.t_arr[k + 1])

\* C2's case: a time axis stitched from three processed segments
MonotonicTimeWitness ==
    /\ run.pc = "returned"
    /\ Len(run.calls) = 3
    /\ Len(run.t_arr) > 20

\* C3: the start state handed to the integrator for a later segment is the
\* last row the integrator produced for the segment processed before it, and
\* the returned trajectory holds exactly one sample at the boundary time,
\* which is that state.
Continuity ==
    /\ \A n \in 1 .. Len(run.calls) - 1 :
          run.calls[n + 1].y0 = Last(run.calls[n].sol)
    /\ run.pc = "returned" =>
          \A n \in 2 .. Len(run.calls) :
              LET at == {k \in 1 .. Len(run.t_arr) : run.t_arr[k] = run.calls[n].at}
              IN  /\ Cardinality(at) = 1
                  /\ \A k \in at : run.y_arr[k] = run.calls[n].y0

\* C3's case: two processed segments at different fluxes, stitched and returned
ContinuityWitness ==
    /\ run.pc = "returned"
    /\ Len(run.calls) = 2
    /\ run.calls[1].flux # run.calls[2].flux
    /\ run.calls[2].y0 # initial_state

\* C9: every integrator call is made at floor(20 * hours) + 10 evenly
\* spaced points from 0 to hours * 3600, and a returned trajectory has
\* sum(floor(20 * hours_i) + 10) - (k - 1) samples for its k processed
\* segments, as many times as states.
SampleCount ==
    /\ \A n \in 1 .. Len(run.calls) :
          LET c == run.calls[n]
              num == (c.duration * 20) \div DurDen + 10
          IN  /\ Len(c.t_span) = num
              /\ Len(c.sol) = num
              /\ c.t_span[1] = FZero
              /\ c.t_span[num] = Frac(c.duration * 3600, DurDen)
              /\ \A j \in 1 .. num - 1 :
                    c.t_span[j + 1] = FAdd(c.t_span[j], c.t_span[2])
    /\ run.pc = "returned" =>
          /\ Len(run.t_arr) = Len(run.y_arr)
          /\ Len(run.t_arr) =
                SumSeq([n \in 1 .. Len(AllDurations) |->
                            (AllDurations[n] * 20) \div DurDen + 10])
                - (Len(AllDurations) - 1)

\* C9's case: segments with different sample counts, returned
SampleCountWitness ==
    /\ run.pc = "returned"
    /\ Len(run.calls) = 3
    /\ Len(run.calls[1].sol) # Len(run.calls[2].sol)

\* C10: current_time is 3600 times the sum of the durations processed so
\* far, every sample's absolute time is its local time plus current_time at
\* its segment, and a returned time axis starts at 0 and ends at 3600 times
\* the sum of all durations > 0.
AbsoluteTime ==
    /\ run.pc = "loop" =>
          run.current_time = Frac(3600 * SumSeq(Processed(power_history, run.i - 1)), DurDen)
    /\ \A n \in 1 .. Len(run.calls) :
          /\ run.calls[n].at =
                Frac(3600 * SumSeq([m \in 1 .. n - 1 |-> run.calls[m].duration]), DurDen)
          /\ LET c == run.calls[n]
                 drop == IF n = 1 THEN 0 ELSE 1
             IN  /\ Len(run.time_points[n]) = Len(c.t_span) - drop
                 /\ \A j \in 1 .. Len(run.time_points[n]) :
                       run.time_points[n][j] = FAdd(c.t_span[j + drop], c.at)
    /\ run.pc = "returned" =>
          /\ run.t_arr[1] = FZero
          /\ Last(run.t_arr) = Frac(3600 * SumSeq(AllDurations), DurDen)

\* C10's case: a returned run that skipped a segment between processed ones
AbsoluteTimeWitness ==
    /\ run.pc = "returned"
    /\ Len(power_history) = 3
    /\ power_history[2].duration < 0
    /\ Len(run.calls) = 2
    /\ Last(run.t_arr) # Last(run.calls[2].t_span)

\* C4: a run over an empty history, or over one whose every duration is
\* <= 0, returns an empty time axis and an empty state matrix.
EmptyResultIsValue ==
    (Ended(run) /\ AllDurations = <<>>) =>
        /\ run.pc = "returned"
        /\ run.t_arr = <<>>
        /\ run.y_arr = <<>>

\* C5: a run that has ended either raised an error or returned a trajectory
\* whose every sample is finite.
FailLoudlyOrFinite ==
    Ended(run) =>
        \/ run.pc = "raised"
        \/ \A k \in 1 .. Len(run.y_arr) : run.y_arr[k].finite

(***************************************************************************)
(* 4. Exact arithmetic for main()'s physical quantities                    *)
(*                                                                         *)
(* A natural is its sequence of base-10^4 digits, lowest first, without    *)
(* leading zeros (zero is << >>).  A real is [s, n, d]: sign s in          *)
(* {-1, 0, 1}, numerator n and denominator d naturals, d # 0; the result   *)
(* of a division by zero is Undefined.                                     *)
(***************************************************************************)
Base == 10^4

Digit(a, i) == IF i <= Len(a) THEN a[i] ELSE 0

RECURSIVE NatOf(_)
NatOf(m) == IF m = 0 THEN <<>> ELSE <<m % Base>> \o NatOf(m \div Base)

RECURSIVE Trim(_)
Trim(a) == IF a # <<>> /\ a[Len(a)] = 0 THEN Trim(SubSeq(a, 1, Len(a) - 1)) ELSE a

RECURSIVE AddFrom(_, _, _, _)
AddFrom(a, b, i, carry) ==
    IF i > Len(a) /\ i > Len(b)
    THEN (IF carry = 0 THEN <<>> ELSE <<carry>>)
    ELSE LET t == Digit(a, i) + Digit(b, i) + carry
         IN  <<t % Base>> \o AddFrom(a, b, i + 1, t \div Base)

NAdd(a, b) == AddFrom(a, b, 1, 0)

\* a - b, for a >= b
RECURSIVE SubFrom(_, _, _, _)
SubFrom(a, b, i, borrow) ==
    IF i > Len(a) THEN <<>>
    ELSE LET t == Digit(a, i) - Digit(b, i) - borrow
         IN  IF t < 0 THEN <<t + Base>> \o SubFrom(a, b, i + 1, 1)
             ELSE <<t>> \o SubFrom(a, b, i + 1, 0)

NSub(a, b) == Trim(SubFrom(a, b, 1, 0))

\* -1, 0, 1 as a < b, a = b, a > b
RECURSIVE CmpFrom(_, _, _)
CmpFrom(a, b, i) ==
    IF i = 0 THEN 0
    ELSE IF a[i] < b[i] THEN -1
    ELSE IF a[i] > b[i] THEN 1
    ELSE CmpFrom(a, b, i - 1)

NCmp(a, b) ==
    IF Len(a) < Len(b) THEN -1
    ELSE IF Len(a) > Len(b) THEN 1
    ELSE CmpFrom(a, b, Len(a))

\* a times one digit m
RECURSIVE ScaleFrom(_, _, _, _)
ScaleFrom(a, m, i, carry) ==
    IF i > Len(a)
    THEN (IF carry = 0 THEN <<>> ELSE <<carry>>)
    ELSE LET t == a[i] * m + carry
         IN  <<t % Base>> \o ScaleFrom(a, m, i + 1, t \div Base)

Shift(a) == IF a = <<>> THEN <<>> ELSE <<0>> \o a

RECURSIVE NMul(_, _)
NMul(a, b) ==
    IF a = <<>> \/ b = <<>> THEN <<>>
    ELSE NAdd(IF Head(b) = 0 THEN <<>> ELSE ScaleFrom(a, Head(b), 1, 0),
              Shift(NMul(a, Tail(b))))

NOne == <<1>>

RECURSIVE Pow10(_)
Pow10(e) == IF e < 4 THEN <<10^e>> ELSE <<0>> \o Pow10(e - 4)

Undefined == [s |-> 0, n |-> <<>>, d |-> <<>>]

\* Common factors of 10^4 cancelled
RECURSIVE Lowest(_)
Lowest(x) ==
    IF x.n = <<>> THEN [s |-> 0, n |-> <<>>, d |-> NOne]
    ELSE IF Head(x.n) = 0 /\ Head(x.d) = 0
         THEN Lowest([x EXCEPT !.n = Tail(x.n), !.d = Tail(x.d)])
         ELSE x

\* The decimal literal m e-k (m x 10^-k), and m e+k
Dec(m, k) == Lowest([s |-> IF m = 0 THEN 0 ELSE 1, n |-> NatOf(m), d |-> Pow10(k)])
Sci(m, k) == Lowest([s |-> IF m = 0 THEN 0 ELSE 1, n |-> NMul(NatOf(m), Pow10(k)), d |-> NOne])

RNeg(x) == [x EXCEPT !.s = -x.s]

\* The signed sum of two numerators over one denominator
Signed(sa, a, sb, b, d) ==
    IF sa = 0 THEN Lowest([s |-> sb, n |-> b, d |-> d])
    ELSE IF sb = 0 THEN Lowest([s |-> sa, n |-> a, d |-> d])
    ELSE IF sa = sb THEN Lowest([s |-> sa, n |-> NAdd(a, b), d |-> d])
    ELSE LET c == NCmp(a, b)
         IN  IF c = 0 THEN Lowest([s |-> 0, n |-> <<>>, d |-> d])
             ELSE IF c > 0 THEN Lowest([s |-> sa, n |-> NSub(a, b), d |-> d])
             ELSE Lowest([s |-> sb, n |-> NSub(b, a), d |-> d])

RAdd(x, y) ==
    IF x.d = <<>> \/ y.d = <<>> THEN Undefined
    ELSE IF x.d = y.d THEN Signed(x.s, x.n, y.s, y.n, x.d)
    ELSE Signed(x.s, NMul(x.n, y.d), y.s, NMul(y.n, x.d), NMul(x.d, y.d))

RSub(x, y) == RAdd(x, RNeg(y))

RMul(x, y) ==
    IF x.d = <<>> \/ y.d = <<>> THEN Undefined
    ELSE Lowest([s |-> x.s * y.s, n |-> NMul(x.n, y.n), d |-> NMul(x.d, y.d)])

RDiv(x, y) ==
    IF x.d = <<>> \/ y.d = <<>> \/ y.s = 0 THEN Undefined
    ELSE Lowest([s |-> x.s * y.s, n |-> NMul(x.n, y.d), d |-> NMul(x.d, y.n)])

Defined(x) == x.d # <<>>
RSign(x) == x.s
REq(x, y) == Defined(x) /\ Defined(y) /\ RSign(RSub(x, y)) = 0
RLess(x, y) == Defined(x) /\ Defined(y) /\ RSign(RSub(x, y)) = -1

(***************************************************************************)
(* 5. ReactorConstants, and main(): equilibrium reference, the button      *)
(* handler, reactivity                                                     *)
(***************************************************************************)
LAMBDA_I == Dec(29306, 9)                    \* 2.9306e-5
LAMBDA_X == Dec(21065, 9)                    \* 2.1065e-5
LAMBDA_PM == Dec(36274, 10)                  \* 3.6274e-6
GAMMA_I == Dec(639, 4)                       \* 0.0639
GAMMA_X == Dec(237, 5)                       \* 0.00237
GAMMA_PM == Dec(1071, 5)                     \* 0.01071
SIGMA_A_X == RMul(Sci(265, 4), Dec(1, 24))   \* 2.65e6 * 1e-24
SIGMA_A_S == RMul(Sci(401, 2), Dec(1, 24))   \* 4.01e4 * 1e-24
SIGMA_F == Dec(98, 3)                        \* 0.098
NU == Dec(243, 2)                            \* 2.43

MaxPhi == 3      \* largest full-power flux entered, in 1e13
MaxStages == 1   \* largest number of stages entered (the widget allows 10)
MaxUIDur == 4    \* longest stage duration entered, in 1/DurDen hours

\* A signed integer m times 10^k
Quantity(m, k) == IF m < 0 THEN RNeg(Sci(-m, k)) ELSE Sci(m, k)

\* lines 272-276: the full-power equilibrium, from phi_ref
EquilibriumBad(phi_ref) ==
    [I |-> RDiv(RMul(RMul(GAMMA_I, SIGMA_F), phi_ref), LAMBDA_I),
     X |-> RDiv(RMul(RMul(RAdd(GAMMA_X, GAMMA_I), SIGMA_F), phi_ref),
                RAdd(LAMBDA_X, RMul(SIGMA_A_X, phi_ref))),
     P |-> RDiv(RMul(RMul(GAMMA_PM, SIGMA_F), phi_ref), LAMBDA_PM),
     S |-> RDiv(RMul(RMul(GAMMA_PM, SIGMA_F), phi_ref),
                RAdd(LAMBDA_PM, RMul(SIGMA_A_S, phi_ref)))]
Equilibrium(phi_ref) ==
    [I |-> RDiv(RMul(RMul(GAMMA_I, SIGMA_F), phi_ref), LAMBDA_I),
     X |-> RDiv(RMul(RMul(RAdd(GAMMA_X, GAMMA_I), SIGMA_F), phi_ref),
                RAdd(LAMBDA_X, RMul(SIGMA_A_X, phi_ref))),
     P |-> RDiv(RMul(RMul(GAMMA_PM, SIGMA_F), phi_ref), LAMBDA_PM),
     S |-> RDiv(RMul(GAMMA_PM, SIGMA_F), SIGMA_A_S)]

\* lines 320-321: k = Macroscopic_Production / (total absorption)
MultiplicationBad(production, absorption) == RDiv(absorption, production)
Multiplication(production, absorption) == RDiv(production, absorption)

\* lines 308-325, for one row of y_arr: X_conc = x, S_conc = s
Reactivity(eq_ref, x, s) ==
    LET Macroscopic_Production == RMul(NU, SIGMA_F)
        Sigma_Xe_ref_abs == RMul(eq_ref.X, SIGMA_A_X)
        Sigma_Sm_ref_abs == RMul(eq_ref.S, SIGMA_A_S)
        Sigma_structure ==
            RSub(Macroscopic_Production, RAdd(Sigma_Xe_ref_abs, Sigma_Sm_ref_abs))
        Sigma_Xe_t == RMul(x, SIGMA_A_X)
        Sigma_Sm_t == RMul(s, SIGMA_A_S)
        k_Xe_only ==
            Multiplication(Macroscopic_Production,
                           RAdd(RAdd(Sigma_structure, Sigma_Xe_t), Sigma_Sm_ref_abs))
        k_Sm_only ==
            Multiplication(Macroscopic_Production,
                           RAdd(RAdd(Sigma_structure, Sigma_Xe_ref_abs), Sigma_Sm_t))
    IN  [X |-> x, S |-> s,
         Rho_Xe |-> RMul(RDiv(RSub(k_Xe_only, Dec(1, 0)), k_Xe_only), Sci(1, 5)),
         Rho_Sm |-> RMul(RDiv(RSub(k_Sm_only, Dec(1, 0)), k_Sm_only), Sci(1, 5))]

\* The sidebar.  FULL_POWER_FLUX (lines 192-197) has no min_value; a stage's
\* duration has min_value 0.1 (lines 234-240) and its power is 0..120 (lines
\* 244-250); the four custom concentrations have min_value 0.0 (lines 285-290).
FluxChoices == -1 .. MaxPhi
DurationChoices == {d \in 1 .. MaxUIDur : 10 * d >= DurDen}
PowerChoices == {0, 100}
StageChoices == [dur : DurationChoices, power : PowerChoices]
ModeChoices == {"fresh", "equilibrium", "custom"}
XLevels == {0, 3}        \* Xe-135, in 1e15 atoms/cm3
SLevels == {0, 30}       \* Sm-149, in 1e15 atoms/cm3
NoCustom == [X |-> 0, S |-> 0]
Widgets ==
    {w \in [FULL_POWER_FLUX : FluxChoices,
            stages : SeqsUpTo(StageChoices, MaxStages) \ {<<>>},
            init_mode : ModeChoices,
            custom : [X : XLevels, S : SLevels]] :
        w.init_mode # "custom" => w.custom = NoCustom}

\* line 262: one (dur, FULL_POWER_FLUX * (current_p / 100.0)) per stage
StagesInput(w) ==
    [i \in 1 .. Len(w.stages) |->
        [duration |-> w.stages[i].dur,
         flux |-> Frac(w.FULL_POWER_FLUX * w.stages[i].power, 100)]]

\* lines 268-290: phi_ref, the equilibrium reference and y0, as one run of
\* the script computes them from the widgets (I-135 and Pm-149 of a custom
\* start are left at their default 0.0)
Script(w) ==
    LET eq_ref == Equilibrium(Quantity(w.FULL_POWER_FLUX, 13))
        zero == Dec(0, 0)
    IN  [flux |-> w.FULL_POWER_FLUX,
         eq_ref |-> eq_ref,
         stages_input |-> StagesInput(w),
         y0 |-> CASE w.init_mode = "fresh" -> [I |-> zero, X |-> zero, P |-> zero, S |-> zero]
                  [] w.init_mode = "equilibrium" -> eq_ref
                  [] w.init_mode = "custom" ->
                        [I |-> zero, X |-> Sci(w.custom.X, 15),
                         P |-> zero, S |-> Sci(w.custom.S, 15)]]

\* simulate_transient run to its end
RECURSIVE Finish(_, _)
Finish(f, history) == IF Ended(f) THEN f ELSE Finish(Step(f, history), history)

\* What the script shows before the button is pressed
NotClicked == [pc |-> "idle", row |-> Reactivity(Equilibrium(Dec(0, 0)), Dec(0, 0), Dec(0, 0))]

Reference(sc) == [flux |-> sc.flux, eq_ref |-> sc.eq_ref]

InitMain ==
    /\ ui \in Widgets
    /\ phys = [now |-> Script(ui), before |-> Reference(Script(ui))]
    /\ app = NotClicked
    /\ power_history = <<>>
    /\ initial_state = [finite |-> TRUE, path |-> <<>>]
    /\ run = Idle
    /\ run2 = Idle
    /\ removed = 0

\* A widget is edited: the script runs again from the top; the button reads
\* False and the last results are gone
Rerun(w) ==
    /\ ui' = w
    /\ phys' = [now |-> Script(w), before |-> Reference(phys.now)]
    /\ app' = NotClicked
    /\ power_history' = <<>>
    /\ run' = Idle
    /\ UNCHANGED <<initial_state, run2, removed>>

EditFlux == \E v \in FluxChoices \ {ui.FULL_POWER_FLUX} :
    Rerun([ui EXCEPT !.FULL_POWER_FLUX = v])

EditStages == \E st \in (SeqsUpTo(StageChoices, MaxStages) \ {<<>>}) \ {ui.stages} :
    Rerun([ui EXCEPT !.stages = st])

EditInitial == \E m \in ModeChoices, c \in [X : XLevels, S : SLevels] :
    /\ m # "custom" => c = NoCustom
    /\ <<m, c>> # <<ui.init_mode, ui.custom>>
    /\ Rerun([ui EXCEPT !.init_mode = m, !.custom = c])

\* lines 293-438: the button handler.  simulate_transient is called with the
\* stages and y0 as entered; row is one row of y_arr with its reactivity
\* (row 0 is y0 itself, a later row any concentration of the levels);
\* line 329 divides by FULL_POWER_FLUX.
Click ==
    /\ app.pc = "idle"
    /\ power_history' = phys.now.stages_input
    /\ run' = Finish(Entry(initial_state), power_history')
    /\ IF run'.pc = "raised"
       THEN app' = [app EXCEPT !.pc = "raised in simulate_transient"]
       ELSE \E x \in {phys.now.y0.X} \cup {Sci(m, 15) : m \in XLevels},
               s \in {phys.now.y0.S} \cup {Sci(m, 15) : m \in SLevels} :
               app' = [pc |-> IF ui.FULL_POWER_FLUX = 0 THEN "raised after reactivity"
                              ELSE "shown",
                       row |-> Reactivity(phys.now.eq_ref, x, s)]
    /\ UNCHANGED <<ui, phys, initial_state, run2, removed>>

NextMain == EditFlux \/ EditStages \/ EditInitial \/ Click

SpecMain == InitMain /\ [][NextMain]_vars

(***************************************************************************)
(* 6. Claims about main()                                                  *)
(***************************************************************************)
Components == {"I", "X", "P", "S"}

\* C6: with a full-power flux <= 0, or a negative initial concentration,
\* simulate_transient is not invoked, no stage is integrated and no
\* reactivity is computed.
ConfigurationRejected ==
    (\/ ui.FULL_POWER_FLUX <= 0
     \/ \E c \in Components : RSign(phys.now.y0[c]) = -1) =>
        /\ run.pc = "idle"
        /\ run.calls = <<>>
        /\ app.pc = "idle"

\* C7: with a positive reference flux, a row whose Xe-135 is above X_eq_ref
\* has Rho_Xe < 0 and a row whose Sm-149 is above S_eq_ref has Rho_Sm < 0.
SignConvention ==
    (app.pc # "idle" /\ ui.FULL_POWER_FLUX > 0) =>
        /\ RLess(phys.now.eq_ref.X, app.row.X) => RSign(app.row.Rho_Xe) = -1
        /\ RLess(phys.now.eq_ref.S, app.row.S) => RSign(app.row.Rho_Sm) = -1

\* C7's case: a shown row with both poisons above the reference equilibrium
SignConventionWitness ==
    /\ app.pc = "shown"
    /\ ui.FULL_POWER_FLUX = 3
    /\ RLess(phys.now.eq_ref.X, app.row.X)
    /\ RLess(phys.now.eq_ref.S, app.row.S)
    /\ RLess(app.row.Rho_Xe, Dec(0, 0))
    /\ RLess(app.row.Rho_Sm, Dec(0, 0))

\* C8: between two runs of the script at different positive fluxes S_eq_ref
\* is the same number, GAMMA_PM * SIGMA_F / SIGMA_A_S, and I_eq_ref,
\* X_eq_ref and P_eq_ref each differ.
FluxIndependence ==
    (/\ phys.before.flux > 0
     /\ phys.now.flux > 0
     /\ phys.before.flux # phys.now.flux) =>
        /\ phys.now.eq_ref.S = phys.before.eq_ref.S
        /\ REq(phys.now.eq_ref.S, RDiv(RMul(GAMMA_PM, SIGMA_F), SIGMA_A_S))
        /\ ~REq(phys.now.eq_ref.I, phys.before.eq_ref.I)
        /\ ~REq(phys.now.eq_ref.X, phys.before.eq_ref.X)
        /\ ~REq(phys.now.eq_ref.P, phys.before.eq_ref.P)

\* C8's case: the flux was edited from 1e13 to 3e13
FluxIndependenceWitness ==
    /\ phys.before.flux = 1
    /\ phys.now.flux = 3
    /\ RLess(phys.before.eq_ref.X, phys.now.eq_ref.X)

====
